---- MODULE Spec2Model ----
(***************************************************************************)
(* Block acceptance and best-chain selection of BlockChain.ProcessBlock    *)
(* (blockchain/process.go).                                                *)
(*                                                                         *)
(* A block hash is modelled as the sequence of the work values of the      *)
(* headers on the path from the genesis block to the block: the header     *)
(* commits to its previous block and to its own proof of work, so two      *)
(* headers have the same hash exactly when they agree on both.  The body   *)
(* of a block (field kind) is not part of the header hash.                 *)
(***************************************************************************)
EXTENDS Integers, Sequences, FiniteSets, TLC

\* ------------------------------------------------------------------ bounds
MaxWork == 2
MaxHeight == 2
MaxEntries == 4

\* ------------------------------------------------------- behaviour flags
BFNone == 0
BFFastAdd == 1
BFNoPoWCheck == 2
BehaviorFlags == 0..3

HasFlag(flags, f) == (flags \div f) % 2 = 1

\* ------------------------------------------------------------ error codes
NoError == "nil"
ErrDuplicateBlock == "ErrDuplicateBlock"
ErrMissingParent == "ErrMissingParent"
ErrHighHash == "ErrHighHash"
ErrTreasuryRule == "ErrTreasuryRule"
ErrUnexpectedDifficulty == "ErrUnexpectedDifficulty"
ErrUnknownDeployment == "ErrUnknownDeployment"

RuleErrors == {ErrDuplicateBlock, ErrMissingParent,
               ErrHighHash, ErrTreasuryRule, ErrUnexpectedDifficulty}

\* ----------------------------------------------------------------- blocks
Genesis == << >>

RECURSIVE SeqsUpTo(_)
SeqsUpTo(n) ==
    IF n = 0 THEN {<< >>}
    ELSE LET S == SeqsUpTo(n - 1)
         IN  S \cup {Append(s, w) : s \in {t \in S : Len(t) = n - 1}, w \in 1..MaxWork}

Hashes == SeqsUpTo(MaxHeight)

BlockKinds == {"ok", "highhash", "tsyrule", "badbits"}

\* Candidate blocks: every header other than the genesis header, with any body.
Blocks == [hash : Hashes \ {Genesis}, kind : BlockKinds]

PrevHash(hash) == SubSeq(hash, 1, Len(hash) - 1)

PrevBlock(block) == PrevHash(block.hash)

BlockWork(block) == block.hash[Len(block.hash)]

\* index:         hash -> block node of every known block (b.index)
\* bestChain:     hash of the tip of the best chain
\* agendaDefined: whether the chain parameters define the treasury agenda
\* last:          the most recent call: its block hash, results and checks run,
\*                the best chain tip before it, and whether the call before it
\*                was for the same hash with the same error
VARIABLES index, bestChain, agendaDefined, last

\* The callers' view of concurrent calls, one entry per caller:
\* pc:            where the caller's call stands in ProcessBlock
\* args:          the block and flags of the caller's call
\* tsy:           the call's local isTreasuryEnabled
\* ret:           the call's results so far and the checks it ran
\* snap:          the chain state when the call took processLock
\* processLock:   the holder of b.processLock
\* chainLock:     the holder of b.chainLock (a caller or an outside reader)
VARIABLES pc, args, tsy, ret, snap, processLock, chainLock

\* codec:         the RPC codec's input, encoding and decoding under test
VARIABLES codec

chainVars == <<index, bestChain, agendaDefined, last>>

callVars == <<pc, args, tsy, ret, snap, processLock, chainLock>>

vars == <<index, bestChain, agendaDefined, last,
          pc, args, tsy, ret, snap, processLock, chainLock, codec>>

\* The chain state a call works on.
ChainState(idx, best, defined) ==
    [index |-> idx, bestChain |-> best, agendaDefined |-> defined]

\* ------------------------------------------------------------ block index
\* Height of the parent from which the treasury agenda is active.
AgendaHeight == 1

HaveBlock(idx, hash) == hash \in DOMAIN idx

GenesisNode ==
    [parent |-> Genesis, height |-> 0, workSum |-> 0, inMainChain |-> TRUE]

newBlockNode(idx, block) ==
    LET prevNode == idx[PrevBlock(block)]
    IN  [parent |-> PrevBlock(block),
         height |-> prevNode.height + 1,
         workSum |-> prevNode.workSum + BlockWork(block),
         inMainChain |-> FALSE]

\* ---------------------------------------------------------- sanity checks
checkBlockSanityContextFree(block, flags) ==
    IF block.kind = "highhash" /\ ~HasFlag(flags, BFNoPoWCheck) THEN ErrHighHash
    ELSE NoError

isTreasuryAgendaActiveByHash(c, prevHash) ==
    IF ~HaveBlock(c.index, prevHash) \/ ~c.agendaDefined
    THEN [active |-> FALSE, err |-> ErrUnknownDeployment]
    ELSE [active |-> c.index[prevHash].height >= AgendaHeight, err |-> NoError]

checkBlockSanityContextual(block, flags, isTreasuryEnabled) ==
    IF block.kind = "tsyrule" /\ isTreasuryEnabled THEN ErrTreasuryRule
    ELSE NoError

\* --------------------------------------------------------- chain acceptor
checkBlockContext(block, flags) ==
    IF block.kind = "badbits" /\ ~HasFlag(flags, BFFastAdd)
    THEN ErrUnexpectedDifficulty
    ELSE NoError

\* The closest ancestor-or-self of hash that is on the main chain.
RECURSIVE findFork(_, _)
findFork(idx, hash) ==
    IF idx[hash].inMainChain THEN hash ELSE findFork(idx, idx[hash].parent)

\* The hashes on the path from ancestor (exclusive) up to hash (inclusive).
RECURSIVE pathAbove(_, _, _)
pathAbove(idx, ancestor, hash) ==
    IF hash = ancestor THEN {}
    ELSE {hash} \cup pathAbove(idx, ancestor, idx[hash].parent)

bestTipForkLenHeightDiff(node, fork) == node.height - fork.height

\* Fork length reported for a block that is the best chain tip after the call.
bestTipForkLen(node, fork) == 0

\* Fork length reported for a block that stays on a side chain.
sideChainForkLen(node, fork) == node.height - fork.height

\* The new branch is attached without detaching the old one.
reorganizeChainNoDetach(idx, fork, hash) ==
    [h \in DOMAIN idx |->
        IF h \in pathAbove(idx, fork, hash)
        THEN [idx[h] EXCEPT !.inMainChain = TRUE]
        ELSE idx[h]]

\* Relabel the entries for a switch of the best chain to the branch ending
\* in hash, whose fork point with the main chain is fork.
reorganizeChain(idx, fork, hash) ==
    LET attach == pathAbove(idx, fork, hash)
    IN  [h \in DOMAIN idx |->
            IF h \in attach THEN [idx[h] EXCEPT !.inMainChain = TRUE]
            ELSE IF idx[h].inMainChain /\ idx[h].height > idx[fork].height
                 THEN [idx[h] EXCEPT !.inMainChain = FALSE]
                 ELSE idx[h]]

\* A tie in cumulative work also switches the best chain.
shouldReorganizeOnTie(node, tip) == node.workSum >= tip.workSum

shouldReorganize(node, tip) == node.workSum > tip.workSum

connectBestChain(c, block, node) ==
    LET hash == block.hash
        idx == [h \in DOMAIN c.index \cup {hash} |->
                    IF h = hash THEN node ELSE c.index[h]]
        fork == findFork(idx, node.parent)
    IN  IF node.parent = c.bestChain
        THEN [forkLen |-> bestTipForkLen(node, idx[fork]), err |-> NoError,
              index |-> [idx EXCEPT ![hash].inMainChain = TRUE],
              bestChain |-> hash]
        ELSE IF shouldReorganize(node, c.index[c.bestChain])
        THEN [forkLen |-> bestTipForkLen(node, idx[fork]), err |-> NoError,
              index |-> reorganizeChain(idx, fork, hash),
              bestChain |-> hash]
        ELSE [forkLen |-> sideChainForkLen(node, idx[fork]), err |-> NoError,
              index |-> idx,
              bestChain |-> c.bestChain]

maybeAcceptBlock(c, block, flags) ==
    LET err == checkBlockContext(block, flags)
    IN  IF err # NoError
        THEN [forkLen |-> 0, err |-> err,
              index |-> c.index, bestChain |-> c.bestChain]
        ELSE connectBestChain(c, block, newBlockNode(c.index, block))

\* ----------------------------------------------------------- ProcessBlock
\* The outcome of a call: the returned pair, the chain state it leaves and
\* the checks it ran, in order.
Return(forkLen, err, idx, best, steps) ==
    [forkLen |-> forkLen, err |-> err, index |-> idx, bestChain |-> best,
     steps |-> steps]

\* The height of the accepted block is returned in place of the fork length.
processAcceptReturnsHeight(c, block, flags, steps) ==
    LET r == maybeAcceptBlock(c, block, flags)
        ran == Append(steps, "accept")
    IN  IF r.err # NoError
        THEN Return(0, r.err, r.index, r.bestChain, ran)
        ELSE Return(Len(block.hash), NoError, r.index, r.bestChain, ran)

\* The fork length the acceptor computed is dropped: 0 is returned.
processAcceptDropsForkLen(c, block, flags, steps) ==
    LET r == maybeAcceptBlock(c, block, flags)
    IN  Return(0, r.err, r.index, r.bestChain, Append(steps, "accept"))

\* The block is reported as accepted without being handed to the acceptor.
processAcceptSkipped(c, block, flags, steps) ==
    Return(0, NoError, c.index, c.bestChain, Append(steps, "accept"))

\* forkLen, err := b.maybeAcceptBlock(block, flags)
processAccept(c, block, flags, steps) ==
    LET r == maybeAcceptBlock(c, block, flags)
        ran == Append(steps, "accept")
    IN  IF r.err # NoError
        THEN Return(0, r.err, r.index, r.bestChain, ran)
        ELSE Return(r.forkLen, NoError, r.index, r.bestChain, ran)

\* The agenda-dependent checks are made after the block was handed to the
\* acceptor instead of before.
processContextualAfterAccept(c, block, flags, isTreasuryEnabled, steps) ==
    LET r == processAccept(c, block, flags, steps)
        err == checkBlockSanityContextual(block, flags, isTreasuryEnabled)
    IN  IF r.err = NoError /\ err # NoError
        THEN Return(0, err, r.index, r.bestChain, Append(r.steps, "contextual"))
        ELSE r

\* err = checkBlockSanityContextual(..., isTreasuryEnabled)
processContextual(c, block, flags, isTreasuryEnabled, steps) ==
    LET err == checkBlockSanityContextual(block, flags, isTreasuryEnabled)
        ran == Append(steps, "contextual")
    IN  IF err # NoError
        THEN Return(0, err, c.index, c.bestChain, ran)
        ELSE processAccept(c, block, flags, ran)

\* isTreasuryEnabled, err := b.isTreasuryAgendaActiveByHash(prevHash)
processAgenda(c, block, flags, steps) ==
    LET a == isTreasuryAgendaActiveByHash(c, PrevBlock(block))
        ran == Append(steps, "agenda")
    IN  IF a.err # NoError
        THEN Return(0, a.err, c.index, c.bestChain, ran)
        ELSE processContextual(c, block, flags, a.active, ran)

\* A block whose parent is unknown is kept in the index as an orphan.
processParentKeepsOrphan(c, block, flags, steps) ==
    LET ran == Append(steps, "parent")
        orphan == [parent |-> PrevBlock(block), height |-> Len(block.hash),
                   workSum |-> 0, inMainChain |-> FALSE]
    IN  IF ~HaveBlock(c.index, PrevBlock(block))
        THEN Return(0, ErrMissingParent,
                    [h \in DOMAIN c.index \cup {block.hash} |->
                        IF h = block.hash THEN orphan ELSE c.index[h]],
                    c.bestChain, ran)
        ELSE processAgenda(c, block, flags, ran)

\* The parent lookup is left out.
processParentUnchecked(c, block, flags, steps) ==
    processAgenda(c, block, flags, Append(steps, "parent"))

\* if !b.index.HaveBlock(prevHash)
processParent(c, block, flags, steps) ==
    LET ran == Append(steps, "parent")
    IN  IF ~HaveBlock(c.index, PrevBlock(block))
        THEN Return(0, ErrMissingParent, c.index, c.bestChain, ran)
        ELSE processAgenda(c, block, flags, ran)

\* err := checkBlockSanityContextFree(...)
processContextFree(c, block, flags, steps) ==
    LET err == checkBlockSanityContextFree(block, flags)
        ran == Append(steps, "contextfree")
    IN  IF err # NoError
        THEN Return(0, err, c.index, c.bestChain, ran)
        ELSE processParent(c, block, flags, ran)

\* The duplicate test is made after the context-free checks instead of before.
ProcessBlockSanityFirst(c, block, flags) ==
    LET err == checkBlockSanityContextFree(block, flags)
        ran == <<"contextfree", "duplicate">>
    IN  IF err # NoError
        THEN Return(0, err, c.index, c.bestChain, <<"contextfree">>)
        ELSE IF HaveBlock(c.index, block.hash)
        THEN Return(0, ErrDuplicateBlock, c.index, c.bestChain, ran)
        ELSE processParent(c, block, flags, ran)

\* if b.index.HaveBlock(blockHash)
ProcessBlock(c, block, flags) ==
    LET ran == <<"duplicate">>
    IN  IF HaveBlock(c.index, block.hash)
        THEN Return(0, ErrDuplicateBlock, c.index, c.bestChain, ran)
        ELSE processContextFree(c, block, flags, ran)

\* ------------------------------------------------------------ state machine
NoCall ==
    [called |-> FALSE, hash |-> Genesis, forkLen |-> 0, err |-> NoError,
     steps |-> << >>, prevBest |-> Genesis, repeat |-> FALSE]

\* The callers and the one outside user of the chain lock.
Callers == {"c1", "c2"}
Reader == "reader"
NoHolder == "none"

NoArgs == [block |-> [hash |-> Genesis, kind |-> "ok"], flags |-> BFNone,
           concurrent |-> FALSE]

NoResult == [forkLen |-> 0, err |-> NoError, steps |-> << >>]

NoSnap == [index |-> << >>, bestChain |-> Genesis]

\* No caller has called and both locks are free.
CallersIdle ==
    /\ pc = [p \in Callers |-> "idle"]
    /\ args = [p \in Callers |-> NoArgs]
    /\ tsy = [p \in Callers |-> FALSE]
    /\ ret = [p \in Callers |-> NoResult]
    /\ snap = [p \in Callers |-> NoSnap]
    /\ processLock = NoHolder
    /\ chainLock = NoHolder

NoCodec == [stage |-> "unused"]

ChainInit ==
    /\ index = [h \in {Genesis} |-> GenesisNode]
    /\ bestChain = Genesis
    /\ agendaDefined \in BOOLEAN
    /\ last = NoCall

Init ==
    /\ ChainInit
    /\ CallersIdle
    /\ codec = NoCodec

\* One call ProcessBlock(block, flags), from entry to return.
Call(block, flags) ==
    \E r \in {ProcessBlock(ChainState(index, bestChain, agendaDefined),
                           block, flags)} :
        /\ index' = r.index
        /\ bestChain' = r.bestChain
        /\ last' = [called |-> TRUE, hash |-> block.hash,
                    forkLen |-> r.forkLen, err |-> r.err,
                    steps |-> r.steps, prevBest |-> bestChain,
                    repeat |-> /\ last.called
                               /\ last.hash = block.hash
                               /\ last.err = r.err]
        /\ UNCHANGED agendaDefined

\* Calls with any candidate block while the index has room.
Process ==
    /\ Cardinality(DOMAIN index) < MaxEntries
    /\ \E block \in Blocks, flags \in BehaviorFlags : Call(block, flags)
    /\ UNCHANGED <<callVars, codec>>

Next == Process

Spec == Init /\ [][Next]_vars

\* The headers of the two competing branches A1-A2-A3 and A1-B1-B2-B3.
A1 == <<1>>
A2 == <<1, 2>>
A3 == <<1, 2, 2>>
B1 == <<1, 1>>
B2 == <<1, 1, 2>>
B3 == <<1, 1, 2, 2>>

ForkHashes == {A1, A2, A3, B1, B2, B3}

\* Calls with the blocks of the two branches, in any order and with any body.
ProcessFork ==
    /\ \E block \in [hash : ForkHashes, kind : BlockKinds], flags \in BehaviorFlags :
          Call(block, flags)
    /\ UNCHANGED <<callVars, codec>>

NextFork == ProcessFork

SpecFork == Init /\ [][NextFork]_vars

\* ------------------------------------------------------------- properties
Current == ChainState(index, bestChain, agendaDefined)

Calls == Blocks \X BehaviorFlags

IsPrefix(a, b) == Len(a) <= Len(b) /\ SubSeq(b, 1, Len(a)) = a

\* The longest common prefix of two hashes: the last header both paths share.
CommonPrefix(a, b) ==
    LET shared == {k \in 0..Len(a) : k <= Len(b) /\ SubSeq(a, 1, k) = SubSeq(b, 1, k)}
        n == CHOOSE k \in shared : \A j \in shared : j <= k
    IN  SubSeq(a, 1, n)

RECURSIVE SumSeq(_)
SumSeq(s) == IF s = << >> THEN 0 ELSE s[Len(s)] + SumSeq(PrevHash(s))

\* Both sanity phases pass for the block in chain state c.
PassesSanity(c, block, flags) ==
    /\ checkBlockSanityContextFree(block, flags) = NoError
    /\ LET a == isTreasuryAgendaActiveByHash(c, PrevBlock(block))
       IN  /\ a.err = NoError
           /\ checkBlockSanityContextual(block, flags, a.active) = NoError

\* The call ran both sanity phases and neither failed: it went on to the
\* chain acceptor.
PassedSanity(steps) ==
    steps = <<"duplicate", "contextfree", "parent", "agenda", "contextual", "accept">>

\* C1: a call with a block whose hash is already in the index, with any flags,
\* returns the duplicate-block error having run no check but the duplicate
\* test, and leaves the index and the best chain tip as they were.
DuplicateRejectedFirst ==
    [][HaveBlock(index, last'.hash) =>
          /\ last'.err = ErrDuplicateBlock
          /\ last'.forkLen = 0
          /\ last'.steps = <<"duplicate">>
          /\ index' = index
          /\ bestChain' = bestChain]_vars

\* A duplicate of a side-chain block has been rejected.
DuplicateOfSideBlockSeen ==
    /\ last.called
    /\ last.err = ErrDuplicateBlock
    /\ HaveBlock(index, last.hash)
    /\ ~index[last.hash].inMainChain

\* C2 as stated: every block that is not in the index and whose parent is not
\* in the index is rejected with the missing-parent error, index unchanged.
OrphanAlwaysMissingParent ==
    [][(~HaveBlock(index, last'.hash) /\ ~HaveBlock(index, PrevHash(last'.hash)))
          => (last'.err = ErrMissingParent /\ index' = index)]_vars

\* C2 amended: every block that is not in the index, whose parent is not in
\* the index and that passes the context-free sanity checks under the call's
\* flags is rejected with the missing-parent error, index and tip unchanged.
SaneOrphanMissingParent ==
    \A call \in Calls :
        LET block == call[1]
            r == ProcessBlock(Current, block, call[2])
        IN  (/\ ~HaveBlock(index, block.hash)
             /\ ~HaveBlock(index, PrevBlock(block))
             /\ checkBlockSanityContextFree(block, call[2]) = NoError)
                => (/\ r.err = ErrMissingParent
                    /\ r.forkLen = 0
                    /\ r.index = index
                    /\ r.bestChain = bestChain)

\* An orphan has been rejected with the missing-parent error.
OrphanRejectedSeen ==
    /\ last.called
    /\ last.err = ErrMissingParent
    /\ ~HaveBlock(index, last.hash)
    /\ ~HaveBlock(index, PrevHash(last.hash))

\* What C3 promises of a call: no error, fork length 0, the block recorded
\* on the main chain and made the best chain tip.
ExtendsBestChain(r, block) ==
    /\ r.err = NoError
    /\ r.forkLen = 0
    /\ HaveBlock(r.index, block.hash)
    /\ r.index[block.hash].inMainChain
    /\ r.bestChain = block.hash

BestIsMain == HaveBlock(index, bestChain) /\ index[bestChain].inMainChain

\* The step is an accepted block whose parent is not the tip and whose
\* cumulative work exceeds that of the best chain.
HeavierForkAccepted ==
    /\ last'.err = NoError
    /\ ~HaveBlock(index, last'.hash)
    /\ PrevHash(last'.hash) # bestChain
    /\ SumSeq(last'.hash) > SumSeq(bestChain)

\* The relabelling a reorganization makes, with anc the common ancestor of
\* the old tip and the new block.
Reorganized ==
    LET hash == last'.hash
        anc == CommonPrefix(hash, bestChain)
    IN  /\ bestChain' = hash
        /\ DOMAIN index' = DOMAIN index \cup {hash}
        /\ \A h \in DOMAIN index :
              /\ (index[h].inMainChain /\ ~index'[h].inMainChain)
                    <=> (IsPrefix(h, bestChain) /\ Len(h) > Len(anc))
              /\ index'[h].parent = index[h].parent
              /\ index'[h].height = index[h].height
              /\ index'[h].workSum = index[h].workSum
        /\ \A h \in DOMAIN index' :
              (IsPrefix(h, hash) /\ Len(h) > Len(anc)) => index'[h].inMainChain
        /\ index'[anc].inMainChain

ReorgSeen ==
    /\ last.called
    /\ last.err = NoError
    /\ bestChain = last.hash
    /\ PrevHash(last.hash) # last.prevBest

\* Height of the last call's block less the height of its common ancestor
\* with the best chain as it was before the call.
HeightAboveFork == Len(last.hash) - Len(CommonPrefix(last.hash, last.prevBest))

RecordedOnSideChain(idx, best, r, hash) ==
    /\ r.err = NoError
    /\ DOMAIN r.index = DOMAIN idx \cup {hash}
    /\ ~r.index[hash].inMainChain
    /\ r.forkLen = Len(hash) - Len(CommonPrefix(hash, best))
    /\ r.bestChain = best
    /\ \A h \in DOMAIN idx : r.index[h] = idx[h]

RECURSIVE ReachesGenesis(_, _, _)
ReachesGenesis(idx, hash, fuel) ==
    /\ HaveBlock(idx, hash)
    /\ \/ hash = Genesis
       \/ fuel > 0 /\ ReachesGenesis(idx, idx[hash].parent, fuel - 1)

BestChainInv ==
    /\ HaveBlock(index, bestChain)
    /\ ReachesGenesis(index, bestChain, Cardinality(DOMAIN index))
    /\ \A h \in DOMAIN index : index[h].workSum <= index[bestChain].workSum

\* C8: in every state the best chain tip is an index entry linked to genesis
\* whose cumulative work is the maximum in the index, and the tip changes
\* only to an entry with strictly more cumulative work, so of two chains with
\* equal work the one accepted first stays the best chain.
BestChainHeaviestFirstSeen ==
    /\ [](BestChainInv)
    /\ [][bestChain' # bestChain
            => index'[bestChain'].workSum > index[bestChain].workSum]_vars

\* A block whose chain ties the best chain's cumulative work was accepted and
\* the tip stayed.
TieKeptFirstSeen ==
    /\ last.called
    /\ last.err = NoError
    /\ last.hash # bestChain
    /\ bestChain = last.prevBest
    /\ index[last.hash].workSum = index[bestChain].workSum

ConcHashes == {A1, A2}

ConcFlags == {BFNone}

ConcCalls == [block : [hash : ConcHashes, kind : BlockKinds], flags : ConcFlags]

\* The checks of ProcessBlock in the order of its statements.
StepOrder == <<"duplicate", "contextfree", "parent", "agenda", "contextual",
               "accept">>

\* The positions of a call that has taken processLock and not yet returned.
InFlight == {"duplicate", "contextfree", "chainlock", "parent", "agenda",
             "contextual", "accept", "unlockchain", "unlockprocess"}

\* The positions between b.chainLock.Lock() and the deferred Unlock.
UnderChainLock == {"parent", "agenda", "contextual", "accept", "unlockchain"}

Goto(p, to) == pc' = [pc EXCEPT ![p] = to]

\* The check passed: note it and go on to the next statement.
Passed(p, step, to) ==
    /\ ret' = [ret EXCEPT ![p].steps = Append(@, step)]
    /\ Goto(p, to)

\* return 0, err: the deferred unlocks are what is left to run.
Failed(p, step, err, to) ==
    /\ ret' = [ret EXCEPT ![p] = [forkLen |-> 0, err |-> err,
                                  steps |-> Append(@.steps, step)]]
    /\ Goto(p, to)

\* A caller calls ProcessBlock(block, flags).
Enter(p) ==
    /\ pc[p] \in {"idle", "returned"}
    /\ \E c \in ConcCalls :
          args' = [args EXCEPT ![p] =
                      [block |-> c.block, flags |-> c.flags,
                       concurrent |-> \E q \in Callers \ {p} : pc[q] \in InFlight]]
    /\ ret' = [ret EXCEPT ![p] = NoResult]
    /\ tsy' = [tsy EXCEPT ![p] = FALSE]
    /\ Goto(p, "lock")
    /\ UNCHANGED <<chainVars, snap, processLock, chainLock, codec>>

\* The lock is taken without waiting for its holder to release it.
LockProcessNoWait(p) ==
    /\ pc[p] = "lock"
    /\ processLock' = p
    /\ snap' = [snap EXCEPT ![p] = [index |-> index, bestChain |-> bestChain]]
    /\ Goto(p, "duplicate")
    /\ UNCHANGED <<chainVars, args, tsy, ret, chainLock, codec>>

\* b.processLock.Lock()
LockProcess(p) ==
    /\ pc[p] = "lock"
    /\ processLock = NoHolder
    /\ processLock' = p
    /\ snap' = [snap EXCEPT ![p] = [index |-> index, bestChain |-> bestChain]]
    /\ Goto(p, "duplicate")
    /\ UNCHANGED <<chainVars, args, tsy, ret, chainLock, codec>>

\* The chain lock is taken for the duplicate test already.
DuplicateTakesChainLock(p) ==
    /\ pc[p] = "duplicate"
    /\ chainLock = NoHolder
    /\ chainLock' = p
    /\ IF HaveBlock(index, args[p].block.hash)
       THEN Failed(p, "duplicate", ErrDuplicateBlock, "unlockchain")
       ELSE Passed(p, "duplicate", "contextfree")
    /\ UNCHANGED <<chainVars, args, tsy, snap, processLock, codec>>

\* if b.index.HaveBlock(blockHash) { return 0, ruleError(ErrDuplicateBlock) }
Duplicate(p) ==
    /\ pc[p] = "duplicate"
    /\ IF HaveBlock(index, args[p].block.hash)
       THEN Failed(p, "duplicate", ErrDuplicateBlock, "unlockprocess")
       ELSE Passed(p, "duplicate", "contextfree")
    /\ UNCHANGED <<chainVars, args, tsy, snap, processLock, chainLock, codec>>

\* err := checkBlockSanityContextFree(block, ...)
ContextFree(p) ==
    /\ pc[p] = "contextfree"
    /\ LET err == checkBlockSanityContextFree(args[p].block, args[p].flags)
       IN  IF err # NoError
           THEN Failed(p, "contextfree", err, "unlockprocess")
           ELSE Passed(p, "contextfree", "chainlock")
    /\ UNCHANGED <<chainVars, args, tsy, snap, processLock, chainLock, codec>>

\* The call goes on without taking the chain lock.
LockChainNoLock(p) ==
    /\ pc[p] = "chainlock"
    /\ Goto(p, "parent")
    /\ UNCHANGED <<chainVars, args, tsy, ret, snap, processLock, chainLock, codec>>

\* The call lock is handed over when the chain lock is taken.
LockChainDropsProcessLock(p) ==
    /\ pc[p] = "chainlock"
    /\ chainLock = NoHolder
    /\ chainLock' = p
    /\ processLock' = NoHolder
    /\ Goto(p, "parent")
    /\ UNCHANGED <<chainVars, args, tsy, ret, snap, codec>>

\* b.chainLock.Lock()
LockChain(p) ==
    /\ pc[p] = "chainlock"
    /\ chainLock = NoHolder
    /\ chainLock' = p
    /\ Goto(p, "parent")
    /\ UNCHANGED <<chainVars, args, tsy, ret, snap, processLock, codec>>

\* The missing-parent return leaves without releasing the chain lock.
ParentLeaksChainLock(p) ==
    /\ pc[p] = "parent"
    /\ IF ~HaveBlock(index, PrevBlock(args[p].block))
       THEN Failed(p, "parent", ErrMissingParent, "unlockprocess")
       ELSE Passed(p, "parent", "agenda")
    /\ UNCHANGED <<chainVars, args, tsy, snap, processLock, chainLock, codec>>

\* if !b.index.HaveBlock(prevHash) { return 0, ruleError(ErrMissingParent) }
Parent(p) ==
    /\ pc[p] = "parent"
    /\ IF ~HaveBlock(index, PrevBlock(args[p].block))
       THEN Failed(p, "parent", ErrMissingParent, "unlockchain")
       ELSE Passed(p, "parent", "agenda")
    /\ UNCHANGED <<chainVars, args, tsy, snap, processLock, chainLock, codec>>

\* The agenda is resolved at the candidate block instead of its parent.
AgendaAtCandidate(p) ==
    /\ pc[p] = "agenda"
    /\ IF ~agendaDefined
       THEN /\ Failed(p, "agenda", ErrUnknownDeployment, "unlockchain")
            /\ UNCHANGED tsy
       ELSE /\ tsy' = [tsy EXCEPT ![p] = Len(args[p].block.hash) >= AgendaHeight]
            /\ Passed(p, "agenda", "contextual")
    /\ UNCHANGED <<chainVars, args, snap, processLock, chainLock, codec>>

\* isTreasuryEnabled, err := b.isTreasuryAgendaActiveByHash(prevHash)
Agenda(p) ==
    /\ pc[p] = "agenda"
    /\ LET a == isTreasuryAgendaActiveByHash(
                    ChainState(index, bestChain, agendaDefined),
                    PrevBlock(args[p].block))
       IN  IF a.err # NoError
           THEN /\ Failed(p, "agenda", a.err, "unlockchain")
                /\ UNCHANGED tsy
           ELSE /\ tsy' = [tsy EXCEPT ![p] = a.active]
                /\ Passed(p, "agenda", "contextual")
    /\ UNCHANGED <<chainVars, args, snap, processLock, chainLock, codec>>

\* The error of the contextual checks is noted and the call goes on.
ContextualGoesOn(p) ==
    /\ pc[p] = "contextual"
    /\ LET err == checkBlockSanityContextual(args[p].block, args[p].flags, tsy[p])
       IN  IF err # NoError
           THEN Failed(p, "contextual", err, "accept")
           ELSE Passed(p, "contextual", "accept")
    /\ UNCHANGED <<chainVars, args, tsy, snap, processLock, chainLock, codec>>

\* err = checkBlockSanityContextual(block, ..., isTreasuryEnabled)
Contextual(p) ==
    /\ pc[p] = "contextual"
    /\ LET err == checkBlockSanityContextual(args[p].block, args[p].flags, tsy[p])
       IN  IF err # NoError
           THEN Failed(p, "contextual", err, "unlockchain")
           ELSE Passed(p, "contextual", "accept")
    /\ UNCHANGED <<chainVars, args, tsy, snap, processLock, chainLock, codec>>

\* forkLen, err := b.maybeAcceptBlock(block, flags); return forkLen, nil
Accept(p) ==
    /\ pc[p] = "accept"
    /\ \E r \in {maybeAcceptBlock(ChainState(index, bestChain, agendaDefined),
                                  args[p].block, args[p].flags)} :
          /\ index' = r.index
          /\ bestChain' = r.bestChain
          /\ ret' = [ret EXCEPT ![p] =
                        [forkLen |-> IF r.err # NoError THEN 0 ELSE r.forkLen,
                         err |-> r.err,
                         steps |-> Append(@.steps, "accept")]]
    /\ Goto(p, "unlockchain")
    /\ UNCHANGED <<agendaDefined, last, args, tsy, snap, processLock, chainLock,
                   codec>>

\* The deferred unlock of the chain lock is left out.
UnlockChainKeepsLock(p) ==
    /\ pc[p] = "unlockchain"
    /\ Goto(p, "unlockprocess")
    /\ UNCHANGED <<chainVars, args, tsy, ret, snap, processLock, chainLock, codec>>

\* defer b.chainLock.Unlock()
UnlockChain(p) ==
    /\ pc[p] = "unlockchain"
    /\ chainLock' = NoHolder
    /\ Goto(p, "unlockprocess")
    /\ UNCHANGED <<chainVars, args, tsy, ret, snap, processLock, codec>>

\* defer b.processLock.Unlock(), after which the caller has its results.
UnlockProcess(p) ==
    /\ pc[p] = "unlockprocess"
    /\ processLock' = NoHolder
    /\ snap' = [snap EXCEPT ![p] = NoSnap]
    /\ Goto(p, "returned")
    /\ UNCHANGED <<chainVars, args, tsy, ret, chainLock, codec>>

\* Another user of the chain takes the chain lock to read the chain state.
ReaderLock ==
    /\ chainLock = NoHolder
    /\ chainLock' = Reader
    /\ UNCHANGED <<chainVars, pc, args, tsy, ret, snap, processLock, codec>>

ReaderUnlock ==
    /\ chainLock = Reader
    /\ chainLock' = NoHolder
    /\ UNCHANGED <<chainVars, pc, args, tsy, ret, snap, processLock, codec>>

NextConc ==
    \/ \E p \in Callers : Enter(p)
    \/ \E p \in Callers : LockProcess(p)
    \/ \E p \in Callers : Duplicate(p)
    \/ \E p \in Callers : ContextFree(p)
    \/ \E p \in Callers : LockChain(p)
    \/ \E p \in Callers : Parent(p)
    \/ \E p \in Callers : Agenda(p)
    \/ \E p \in Callers : Contextual(p)
    \/ \E p \in Callers : Accept(p)
    \/ \E p \in Callers : UnlockChain(p)
    \/ \E p \in Callers : UnlockProcess(p)
    \/ ReaderLock
    \/ ReaderUnlock

SpecConc == Init /\ [][NextConc]_vars

\* The statements of a call that never wait for another goroutine.
Run(p) ==
    \/ Duplicate(p)
    \/ ContextFree(p)
    \/ Parent(p)
    \/ Agenda(p)
    \/ Contextual(p)
    \/ Accept(p)
    \/ UnlockChain(p)
    \/ UnlockProcess(p)

\* The scheduler runs every runnable goroutine, a sync.Mutex hands the lock
\* to a goroutine that keeps waiting for it (starvation mode), and a reader
\* releases the chain lock it took.
FairConc ==
    /\ \A p \in Callers : WF_vars(Run(p))
    /\ \A p \in Callers : SF_vars(LockProcess(p))
    /\ \A p \in Callers : SF_vars(LockChain(p))
    /\ WF_vars(ReaderUnlock)

SpecConcFair == SpecConc /\ FairConc

\* ------------------------------------------------------ concurrent claims
\* The chain state a call found when it took processLock.
SnapState(p) == ChainState(snap[p].index, snap[p].bestChain, agendaDefined)

\* The call of p has run the acceptor and the acceptor took the block.
Accepted(p) ==
    /\ pc[p] \in {"unlockchain", "unlockprocess", "returned"}
    /\ Len(ret[p].steps) = Len(StepOrder)
    /\ ret[p].err = NoError

\* C11: at most one ProcessBlock call is between taking processLock, its
\* first statement, and its return: a call is past b.processLock.Lock() and
\* short of the deferred Unlock exactly when it holds processLock, whichever
\* return statement it leaves by, so no two calls are there together.
MutualExclusion ==
    /\ \A p, q \in Callers : pc[p] \in InFlight /\ pc[q] \in InFlight => p = q
    /\ \A p \in Callers : pc[p] \in InFlight <=> processLock = p

\* A second caller waits for processLock while a call is under way.
ContendedCallSeen ==
    \E p, q \in Callers :
        /\ p # q
        /\ pc[p] \in UnderChainLock
        /\ pc[q] = "lock"

\* C12: concurrent calls are linearizable: when a call returns, its results
\* and the chain state are those of ProcessBlock run alone on the chain state
\* the call found when it took processLock, and no block is accepted by two
\* calls.
Linearizable ==
    /\ \A p \in Callers :
          pc[p] = "unlockprocess" =>
              \E r \in {ProcessBlock(SnapState(p), args[p].block, args[p].flags)} :
                  /\ ret[p] = [forkLen |-> r.forkLen, err |-> r.err,
                               steps |-> r.steps]
                  /\ index = r.index
                  /\ bestChain = r.bestChain
    /\ \A p, q \in Callers :
          (/\ p # q
           /\ Accepted(p)
           /\ Accepted(q)) => args[p].block.hash # args[q].block.hash

\* Two callers submitted the same valid block at once: one call accepted it
\* and the other is returning the duplicate error.
SameBlockRaceSeen ==
    \E p, q \in Callers :
        /\ p # q
        /\ args[p].block = args[q].block
        /\ args[q].concurrent
        /\ pc[p] = "returned"
        /\ Accepted(p)
        /\ pc[q] = "unlockprocess"
        /\ ret[q].err = ErrDuplicateBlock
        /\ HaveBlock(index, args[q].block.hash)

\* ------------------------------------------------------------- RPC codec
\* Hashes and byte strings are sequences of bytes, an encoded string is a
\* sequence of hexadecimal characters.
MaxHashes == 2
MaxVotes == 2

HashSize == 32
BitsSize == 2
MaxExtendedBits == 73

HexDigits == <<"0", "1", "2", "3", "4", "5", "6", "7", "8", "9",
               "a", "b", "c", "d", "e", "f">>

IsHexDigit(ch) == \E n \in 1..16 : HexDigits[n] = ch

HexValue(ch) == (CHOOSE n \in 1..16 : HexDigits[n] = ch) - 1

\* hex.EncodeToString
EncodeToString(bytes) ==
    [i \in 1..(2 * Len(bytes)) |->
        IF i % 2 = 1 THEN HexDigits[(bytes[(i + 1) \div 2] \div 16) + 1]
        ELSE HexDigits[(bytes[i \div 2] % 16) + 1]]

\* hex.DecodeString
DecodeString(str) ==
    IF Len(str) % 2 # 0 \/ \E i \in 1..Len(str) : ~IsHexDigit(str[i])
    THEN [err |-> TRUE, bytes |-> << >>]
    ELSE [err |-> FALSE,
          bytes |-> [i \in 1..(Len(str) \div 2) |->
                        16 * HexValue(str[2 * i - 1]) + HexValue(str[2 * i])]]

RECURSIVE Concat(_)
Concat(seqs) == IF seqs = << >> THEN << >> ELSE Head(seqs) \o Concat(Tail(seqs))

\* The raw bytes of each hash, in order, as one hex string.
EncodeConcatenatedHashes(hashes) ==
    EncodeToString(Concat(hashes))

\* The string is cut into hashes of HashSize bytes.
DecodeConcatenatedHashes(str) ==
    LET d == DecodeString(str)
    IN  IF d.err \/ Len(d.bytes) % HashSize # 0
        THEN [err |-> TRUE, hashes |-> << >>]
        ELSE [err |-> FALSE,
              hashes |-> [k \in 1..(Len(d.bytes) \div HashSize) |->
                             SubSeq(d.bytes, (k - 1) * HashSize + 1, k * HashSize)]]

\* Bits is written most significant byte first.
voteBitsBytesBigEndian(vb) ==
    <<BitsSize + Len(vb.ExtendedBits), vb.Bits \div 256, vb.Bits % 256>>
        \o vb.ExtendedBits

\* One record: its length in one byte, Bits little-endian, ExtendedBits.
voteBitsBytes(vb) ==
    <<BitsSize + Len(vb.ExtendedBits), vb.Bits % 256, vb.Bits \div 256>>
        \o vb.ExtendedBits

EncodeConcatenatedVoteBits(vbs) ==
    IF \E k \in 1..Len(vbs) : Len(vbs[k].ExtendedBits) > MaxExtendedBits
    THEN [err |-> TRUE, str |-> << >>]
    ELSE [err |-> FALSE,
          str |-> EncodeToString(Concat([k \in 1..Len(vbs) |-> voteBitsBytes(vbs[k])]))]

\* A record cut short at the end of the input ends the list without an error.
RECURSIVE decodeRecordsLenient(_, _)
decodeRecordsLenient(bytes, vbs) ==
    IF bytes = << >> THEN [err |-> FALSE, vbs |-> vbs]
    ELSE IF bytes[1] < BitsSize THEN [err |-> TRUE, vbs |-> << >>]
    ELSE IF Len(bytes) < 1 + bytes[1] THEN [err |-> FALSE, vbs |-> vbs]
    ELSE decodeRecordsLenient(
             SubSeq(bytes, 2 + bytes[1], Len(bytes)),
             Append(vbs, [Bits |-> bytes[2] + 256 * bytes[3],
                          ExtendedBits |-> SubSeq(bytes, 4, 1 + bytes[1])]))

\* The records are read one after another until the input is used up.
RECURSIVE decodeRecords(_, _)
decodeRecords(bytes, vbs) ==
    IF bytes = << >> THEN [err |-> FALSE, vbs |-> vbs]
    ELSE IF bytes[1] < BitsSize THEN [err |-> TRUE, vbs |-> << >>]
    ELSE IF Len(bytes) < 1 + bytes[1] THEN [err |-> TRUE, vbs |-> << >>]
    ELSE decodeRecords(
             SubSeq(bytes, 2 + bytes[1], Len(bytes)),
             Append(vbs, [Bits |-> bytes[2] + 256 * bytes[3],
                          ExtendedBits |-> SubSeq(bytes, 4, 1 + bytes[1])]))

DecodeConcatenatedVoteBits(str) ==
    LET d == DecodeString(str)
    IN  IF d.err THEN [err |-> TRUE, vbs |-> << >>]
        ELSE decodeRecords(d.bytes, << >>)

\* The inputs of the codec: lists of hashes and lists of vote bits.
HashOf(a, b) == [i \in 1..HashSize |-> IF i % 2 = 1 THEN a ELSE b]

TestHashes == {HashOf(128, 217), HashOf(0, 0), HashOf(255, 10)}

Zeros(n) == [i \in 1..n |-> 0]

TestBits == {0, 4643}

TestExtendedBits ==
    {<< >>, <<1, 2, 3, 4>>, Zeros(MaxExtendedBits), Zeros(MaxExtendedBits + 1)}

TestVoteBits == [Bits : TestBits, ExtendedBits : TestExtendedBits]

ListsOf(S, n) == UNION {[1..k -> S] : k \in 0..n}

\* The bytes appended to a valid encoding.
TrailingBytes == {0, 1, 2, 6, 255}

CodecInput(what, list) ==
    [stage |-> "input", what |-> what, input |-> list, str |-> << >>,
     err |-> FALSE, tamper |-> "none", out |-> << >>, outErr |-> FALSE]

InitCodec ==
    /\ ChainInit
    /\ CallersIdle
    /\ codec \in {CodecInput("hashes", l) : l \in ListsOf(TestHashes, MaxHashes)}
            \cup {CodecInput("votebits", l) : l \in ListsOf(TestVoteBits, MaxVotes)}

EncodeHashes ==
    /\ codec.stage = "input"
    /\ codec.what = "hashes"
    /\ codec' = [codec EXCEPT !.stage = "encoded",
                              !.str = EncodeConcatenatedHashes(codec.input)]
    /\ UNCHANGED <<chainVars, callVars>>

DecodeHashes ==
    /\ codec.stage = "encoded"
    /\ codec.what = "hashes"
    /\ LET d == DecodeConcatenatedHashes(codec.str)
       IN  codec' = [codec EXCEPT !.stage = "decoded", !.out = d.hashes,
                                  !.outErr = d.err]
    /\ UNCHANGED <<chainVars, callVars>>

EncodeVoteBits ==
    /\ codec.stage = "input"
    /\ codec.what = "votebits"
    /\ LET e == EncodeConcatenatedVoteBits(codec.input)
       IN  codec' = [codec EXCEPT !.stage = "encoded", !.str = e.str,
                                  !.err = e.err]
    /\ UNCHANGED <<chainVars, callVars>>

\* A valid encoding not yet altered.
ValidEncoding ==
    /\ codec.stage = "encoded"
    /\ codec.what = "votebits"
    /\ ~codec.err
    /\ codec.tamper = "none"

\* The last byte of a valid encoding is lost.
DropLastByte ==
    /\ ValidEncoding
    /\ Len(codec.str) >= 2
    /\ codec' = [codec EXCEPT !.tamper = "short",
                              !.str = SubSeq(codec.str, 1, Len(codec.str) - 2)]
    /\ UNCHANGED <<chainVars, callVars>>

\* One more byte follows a valid encoding.
AppendByte ==
    /\ ValidEncoding
    /\ \E b \in TrailingBytes :
          codec' = [codec EXCEPT !.tamper = "long",
                                 !.str = codec.str \o EncodeToString(<<b>>)]
    /\ UNCHANGED <<chainVars, callVars>>

\* The position of the length prefix of record k among the encoded bytes.
RECURSIVE PrefixAt(_, _)
PrefixAt(vbs, k) ==
    IF k = 1 THEN 1
    ELSE PrefixAt(vbs, k - 1) + 1 + BitsSize + Len(vbs[k - 1].ExtendedBits)

\* The length prefix of one record is replaced by a length below BitsSize.
ShrinkPrefix ==
    /\ ValidEncoding
    /\ \E k \in 1..Len(codec.input), v \in 0..(BitsSize - 1) :
          codec' = [codec EXCEPT
                       !.tamper = "badprefix",
                       !.str = EncodeToString(
                                   [DecodeString(codec.str).bytes
                                       EXCEPT ![PrefixAt(codec.input, k)] = v])]
    /\ UNCHANGED <<chainVars, callVars>>

DecodeVoteBits ==
    /\ codec.stage = "encoded"
    /\ codec.what = "votebits"
    /\ ~codec.err
    /\ LET d == DecodeConcatenatedVoteBits(codec.str)
       IN  codec' = [codec EXCEPT !.stage = "decoded", !.out = d.vbs,
                                  !.outErr = d.err]
    /\ UNCHANGED <<chainVars, callVars>>

NextCodec ==
    \/ EncodeHashes
    \/ DecodeHashes
    \/ EncodeVoteBits
    \/ DropLastByte
    \/ AppendByte
    \/ ShrinkPrefix
    \/ DecodeVoteBits

SpecCodec == InitCodec /\ [][NextCodec]_vars

\* Every record of the list can be encoded.
WithinSize(vbs) ==
    \A k \in 1..Len(vbs) : Len(vbs[k].ExtendedBits) <= MaxExtendedBits

\* Byte i of hash k of the input as the encoded string spells it.
SpelledByte(k, i) ==
    16 * HexValue(codec.str[2 * ((k - 1) * HashSize + i) - 1])
        + HexValue(codec.str[2 * ((k - 1) * HashSize + i)])

\* C13: decoding the encoding of a list of hashes gives the list back in its
\* order, the encoding being the raw bytes of each hash in hexadecimal one
\* after another with no separator (nothing for the empty list); decoding the
\* encoding of a list of vote bits whose ExtendedBits are within the allowed
\* size gives the list back.
CodecRoundTrip ==
    /\ (codec.what = "hashes" /\ codec.stage \in {"encoded", "decoded"}) =>
          /\ Len(codec.str) = 2 * HashSize * Len(codec.input)
          /\ \A k \in 1..Len(codec.input), i \in 1..HashSize :
                SpelledByte(k, i) = codec.input[k][i]
    /\ (codec.what = "hashes" /\ codec.stage = "decoded") =>
          /\ ~codec.outErr
          /\ codec.out = codec.input
    /\ (codec.what = "votebits" /\ codec.stage \in {"encoded", "decoded"}
            /\ WithinSize(codec.input)) => ~codec.err
    /\ (codec.what = "votebits" /\ codec.stage = "decoded"
            /\ codec.tamper = "none") =>
          /\ ~codec.outErr
          /\ codec.out = codec.input

\* Two vote bits records, one with the longest ExtendedBits allowed, were
\* encoded and decoded.
VoteBitsRoundTripSeen ==
    /\ codec.what = "votebits"
    /\ codec.stage = "decoded"
    /\ codec.tamper = "none"
    /\ Len(codec.input) = 2
    /\ codec.input[1].Bits # codec.input[2].Bits
    /\ \E k \in 1..2 : Len(codec.input[k].ExtendedBits) = MaxExtendedBits
    /\ codec.out = codec.input

\* C14: decoding returns an error and no list for a valid encoding of vote
\* bits that lost its last byte, that is followed by one more byte, or in
\* which a record's length prefix is below the size of Bits; encoding returns
\* an error and no string when a record's ExtendedBits are longer than allowed.
CorruptVoteBitsRejected ==
    /\ (codec.what = "votebits" /\ codec.stage = "decoded"
            /\ codec.tamper \in {"short", "long", "badprefix"}) =>
          /\ codec.outErr
          /\ codec.out = << >>
    /\ (codec.what = "votebits" /\ codec.stage = "encoded"
            /\ ~WithinSize(codec.input)) =>
          /\ codec.err
          /\ codec.str = << >>

\* The encoding of two records lost its last byte and was refused.
ShortReadRejectedSeen ==
    /\ codec.what = "votebits"
    /\ codec.stage = "decoded"
    /\ codec.tamper = "short"
    /\ Len(codec.input) = 2
    /\ codec.outErr

\* The call of p has left by a return statement.
Leaving(p) == pc[p] \in {"unlockchain", "unlockprocess", "returned"}

\* The number of checks the call of p has run so far.
Ran(p) == Len(ret[p].steps)

\* The agenda state at the parent of the block of p.
ActiveAtParent(p) == Len(PrevBlock(args[p].block)) >= AgendaHeight

\* C15: the checks of a call run in the order duplicate, context-free
\* sanity, parent, agenda, contextual sanity, acceptor, one at a time, and a
\* check that fails ends the call; so the agenda is resolved and the
\* contextual checks run only for a block whose parent is in the index, and
\* the acceptor runs only for a block that passed every earlier check.
StepsInOrder ==
    /\ [](\A p \in Callers :
            /\ IsPrefix(ret[p].steps, StepOrder)
            /\ ret[p].err # NoError => Leaving(p)
            /\ Ran(p) >= 4 => HaveBlock(index, PrevBlock(args[p].block))
            /\ Ran(p) = 6 =>
                  /\ checkBlockSanityContextFree(args[p].block, args[p].flags) = NoError
                  /\ agendaDefined
                  /\ checkBlockSanityContextual(args[p].block, args[p].flags,
                                                ActiveAtParent(p)) = NoError)
    /\ [][\A p \in Callers :
            ret'[p].steps # ret[p].steps =>
                \/ pc'[p] = "lock" /\ ret'[p].steps = << >>
                \/ /\ ret[p].err = NoError
                   /\ Ran(p) < Len(StepOrder)
                   /\ ret'[p].steps = Append(ret[p].steps, StepOrder[Ran(p) + 1])]_vars

\* One call ended at the parent check with no later check run, another ran
\* all six checks.
OrphanAndAcceptedSeen ==
    \E p, q \in Callers :
        /\ pc[p] = "returned"
        /\ ret[p].err = ErrMissingParent
        /\ ret[p].steps = SubSeq(StepOrder, 1, 3)
        /\ pc[q] = "returned"
        /\ ret[q].steps = StepOrder

\* C16: the flag handed to the contextual checks is the agenda state at the
\* parent of the block, resolved once, before the contextual checks, and not
\* changed afterwards in the call; when the resolution fails the call returns
\* its error, which is not a rule error, with neither the contextual checks
\* nor the acceptor run.
AgendaResolvedAtParent ==
    /\ [](\A p \in Callers :
            /\ (Ran(p) > 4 \/ (Ran(p) = 4 /\ ret[p].err = NoError)) =>
                  tsy[p] = ActiveAtParent(p)
            /\ (Ran(p) = 5 /\ ret[p].err # NoError) =>
                  /\ ret[p].err = ErrTreasuryRule
                  /\ args[p].block.kind = "tsyrule"
                  /\ ActiveAtParent(p)
            /\ (Ran(p) = 6 \/ (Ran(p) = 5 /\ ret[p].err = NoError)) =>
                  ~(args[p].block.kind = "tsyrule" /\ ActiveAtParent(p))
            /\ (Ran(p) >= 4 /\ ~agendaDefined) =>
                  /\ Ran(p) = 4
                  /\ ret[p].err = ErrUnknownDeployment
                  /\ ret[p].err \notin RuleErrors
                  /\ Leaving(p))
    /\ [][\A p \in Callers :
            tsy'[p] # tsy[p] => pc[p] = "agenda" \/ pc'[p] = "lock"]_vars

\* A block at the agenda's height that breaks the agenda's rule was accepted,
\* the agenda not being active at its parent.
InactiveAtParentSeen ==
    \E p \in Callers :
        /\ pc[p] = "returned"
        /\ Accepted(p)
        /\ args[p].block.kind = "tsyrule"
        /\ Len(args[p].block.hash) = AgendaHeight
        /\ ~tsy[p]

\* C17: a call takes chainLock only while it holds processLock, holds it
\* from the parent check to the deferred unlock whichever way the call ends,
\* gives it up before it gives up processLock, and holds neither lock before
\* it has taken processLock or after it has returned.
LocksNested ==
    /\ [](\A p \in Callers :
            /\ chainLock = p => processLock = p
            /\ chainLock = p <=> pc[p] \in UnderChainLock
            /\ pc[p] \in {"idle", "lock", "returned"} =>
                  processLock # p /\ chainLock # p)
    /\ [][\A p \in Callers :
            /\ (chainLock # p /\ chainLock' = p) => processLock = p
            /\ (processLock = p /\ processLock' # p) =>
                  chainLock # p /\ chainLock' # p]_vars

\* A call that ended at the parent check has given up chainLock and still
\* holds processLock.
ErrorPathUnlockSeen ==
    \E p \in Callers :
        /\ pc[p] = "unlockprocess"
        /\ ret[p].err = ErrMissingParent
        /\ chainLock # p
        /\ processLock = p

IndexAccessUnderChainLock ==
    [][\A p \in Callers :
          (pc[p] \in {"duplicate", "parent", "accept"} /\ pc'[p] # pc[p]) =>
              chainLock = p]_vars

\* C19: the parent test, the agenda resolution and the acceptor are made by
\* a call that holds chainLock; the duplicate test is made by a call that
\* holds processLock and not chainLock, which another holder may have.
IndexAccessLocks ==
    [][\A p \in Callers :
          /\ (pc[p] \in {"parent", "agenda", "accept"} /\ pc'[p] # pc[p]) =>
                chainLock = p
          /\ (pc[p] = "duplicate" /\ pc'[p] # pc[p]) =>
                processLock = p /\ chainLock # p]_vars

\* A call is returning from its duplicate test, having taken processLock
\* only, while a reader holds chainLock.
DuplicateTestBesideReaderSeen ==
    \E p \in Callers :
        /\ pc[p] = "unlockprocess"
        /\ ret[p].steps = <<"duplicate">>
        /\ ret[p].err = ErrDuplicateBlock
        /\ processLock = p
        /\ chainLock = Reader

\* C20: under fair scheduling, with every check and the acceptor returning
\* and the reader releasing chainLock, every call that waits for processLock
\* returns with a fork length or an error and holds neither lock then, so a
\* waiting caller gets its turn; chainLock is only ever taken by the holder
\* of processLock, so the callers cannot wait for each other in a cycle.
EveryCallReturns ==
    /\ \A p \in Callers :
          (pc[p] = "lock") ~>
              (pc[p] = "returned" /\ processLock # p /\ chainLock # p)
    /\ [][\A p \in Callers :
            (chainLock # p /\ chainLock' = p) =>
                processLock = p /\ processLock' = p]_vars

\* Both callers have returned, one of them having called while the other's
\* call was under way.
BothReturnedSeen ==
    \E p, q \in Callers :
        /\ p # q
        /\ pc[p] = "returned"
        /\ pc[q] = "returned"
        /\ args[q].concurrent
        /\ processLock = NoHolder

====
